---- MODULE Spec2Model ----
(***************************************************************************)
(* A model of the kingsway client: the listing screen (JobsPage.jsx: the   *)
(* location selector and the job filter) and the assist screen             *)
(* (ApplyWithAI: generateLetter, rewriteAsCv, modifyLetter, validateCv,    *)
(* the redirect effect and the router of App.jsx).                         *)
(*                                                                         *)
(* Texts the listing screen computes on (titles, companies, locations,     *)
(* the query) are sequences of one-character strings, so that trim,        *)
(* toLowerCase, includes and localeCompare are computed character by       *)
(* character.  Texts that are only stored and passed on (the CV, letters,  *)
(* response bodies) are TLA+ strings.                                      *)
(***************************************************************************)
EXTENDS Integers, Sequences, FiniteSets, TLC

VARIABLES
    jobs,           \* JobsPage: useState([])  - the loaded job array
    q,              \* JobsPage: useState("")  - the free-text query
    loc,            \* JobsPage: useState("All") - the selected location
    jobsLoaded,     \* whether the dataset fetch of JobsPage has resolved
    history,        \* the router's history stack: entries [path, job]
    idx,            \* the index of the current history entry
    effectPending,  \* ApplyWithAI is mounted and its effect has not run yet
    cv,             \* ApplyWithAI: useState("")
    letter,         \* ApplyWithAI: useState("")
    loading,        \* ApplyWithAI: useState(false)
    error,          \* ApplyWithAI: useState("") - a sequence of text parts
    rewrittenCv,    \* ApplyWithAI: useState("")
    cvReview,       \* ApplyWithAI: useState(null)
    ops,            \* the asynchronous invocations between start and completion
    nextId,         \* the number of invocations started so far, plus one
    completed       \* the invocation that completed in the last step, or NoOp

listingVars == <<jobs, q, loc, jobsLoaded>>
navVars     == <<history, idx, effectPending>>
screenVars  == <<cv, letter, loading, error, rewrittenCv, cvReview>>
asyncVars   == <<ops, nextId, completed>>
vars == <<jobs, q, loc, jobsLoaded, history, idx, effectPending, cv, letter,
          loading, error, rewrittenCv, cvReview, ops, nextId, completed>>

----------------------------------------------------------------------------
(* Bounds *)

\* The longest job array the listing specification loads.
MaxJobs == 3
\* The number of asynchronous invocations one behaviour may start.
MaxOps == 2

----------------------------------------------------------------------------
(* JavaScript values and string operations *)

\* undefined / null: a value no text equals.
Undefined == <<"undefined">>

\* Boolean(x) of a text or undefined: undefined and "" are falsy.
Truthy(x) == x # Undefined /\ x # <<>>

\* x || "" 
OrEmpty(x) == IF Truthy(x) THEN x ELSE <<>>

\* String.prototype.toLowerCase, one character.
LowerChar(c) ==
    CASE c = "A" -> "a"
      [] c = "B" -> "b"
      [] c = "L" -> "l"
      [] OTHER   -> c

\* String.prototype.toLowerCase
ToLowerCase(s) == [i \in 1..Len(s) |-> LowerChar(s[i])]

IsWhiteSpace(c) == c = " "

RECURSIVE TrimStart(_)
TrimStart(s) ==
    IF s # <<>> /\ IsWhiteSpace(Head(s)) THEN TrimStart(Tail(s)) ELSE s

RECURSIVE TrimEnd(_)
TrimEnd(s) ==
    IF s # <<>> /\ IsWhiteSpace(s[Len(s)])
    THEN TrimEnd(SubSeq(s, 1, Len(s) - 1))
    ELSE s

\* String.prototype.trim
Trim(s) == TrimEnd(TrimStart(s))

\* String.prototype.includes
Includes(s, sub) ==
    \E i \in 0..(Len(s) - Len(sub)) : SubSeq(s, i + 1, i + Len(sub)) = sub

\* The primary (base letter) weight of a character in the collation that
\* localeCompare uses: white space before letters, letters in alphabet order.
PrimaryWeight(c) ==
    CASE c = " "              -> 0
      [] LowerChar(c) = "a"   -> 1
      [] LowerChar(c) = "b"   -> 2
      [] LowerChar(c) = "l"   -> 3
      [] OTHER                -> 4

\* The tertiary (case) weight: lower case before upper case.
TertiaryWeight(c) == IF LowerChar(c) = c THEN 0 ELSE 1

\* Lexicographic comparison of two sequences of weights: -1, 0 or 1.
RECURSIVE CompareWeights(_, _)
CompareWeights(a, b) ==
    IF a = <<>> /\ b = <<>> THEN 0
    ELSE IF a = <<>> THEN -1
    ELSE IF b = <<>> THEN 1
    ELSE IF Head(a) < Head(b) THEN -1
    ELSE IF Head(a) > Head(b) THEN 1
    ELSE CompareWeights(Tail(a), Tail(b))

\* String.prototype.localeCompare: base letters decide first, case breaks ties.
LocaleCompare(a, b) ==
    LET p == CompareWeights([i \in 1..Len(a) |-> PrimaryWeight(a[i])],
                            [i \in 1..Len(b) |-> PrimaryWeight(b[i])])
    IN  IF p # 0 THEN p
        ELSE CompareWeights([i \in 1..Len(a) |-> TertiaryWeight(a[i])],
                            [i \in 1..Len(b) |-> TertiaryWeight(b[i])])

Range(s) == {s[i] : i \in 1..Len(s)}

----------------------------------------------------------------------------
(* JobsPage.jsx: the location selector and the filter *)

\* The "All" entry of the location selector.
All == <<"A", "l", "l">>

\* jobs.map(j => j?.discovery_input?.location)
MapLocation(js) == [i \in 1..Len(js) |-> js[i].location]

\* Array.prototype.filter(Boolean)
RECURSIVE FilterBoolean(_)
FilterBoolean(xs) ==
    IF xs = <<>> THEN <<>>
    ELSE IF Truthy(Head(xs)) THEN <<Head(xs)>> \o FilterBoolean(Tail(xs))
    ELSE FilterBoolean(Tail(xs))

\* Array.from(new Set(xs)): the distinct values, in order of first insertion.
RECURSIVE ArrayFromSet(_)
ArrayFromSet(xs) ==
    IF xs = <<>> THEN <<>>
    ELSE LET init == SubSeq(xs, 1, Len(xs) - 1)
             last == xs[Len(xs)]
         IN  IF last \in Range(init) THEN ArrayFromSet(init)
             ELSE ArrayFromSet(init) \o <<last>>

\* One step of a stable insertion sort by localeCompare.
RECURSIVE InsertSorted(_, _)
InsertSorted(x, sorted) ==
    IF sorted = <<>> THEN <<x>>
    ELSE IF LocaleCompare(x, Head(sorted)) < 0 THEN <<x>> \o sorted
    ELSE <<Head(sorted)>> \o InsertSorted(x, Tail(sorted))

\* Array.prototype.sort((a,b) => a.localeCompare(b))
RECURSIVE SortLocale(_)
SortLocale(xs) ==
    IF xs = <<>> THEN <<>>
    ELSE InsertSorted(xs[Len(xs)], SortLocale(SubSeq(xs, 1, Len(xs) - 1)))

\* const locations = useMemo(...)
LocationsOf(js) ==
    <<All>> \o SortLocale(ArrayFromSet(FilterBoolean(MapLocation(js))))

\* matchQuery of the filter callback; query is already trimmed and lower-cased.
MatchQuery(j, query) ==
    LET title    == ToLowerCase(OrEmpty(j.job_title))
        company  == ToLowerCase(OrEmpty(j.company_name))
        location == ToLowerCase(OrEmpty(j.location))
    IN  \/ ~Truthy(query)
        \/ Includes(title, query)
        \/ Includes(company, query)
        \/ Includes(location, query)

\* A faulty matchLoc: the location compared case-sensitively.
MatchLocCaseSensitive(j, l) == l = All \/ OrEmpty(j.location) = l

\* A faulty matchLoc: the "All" case left out.
MatchLocWithoutAll(j, l) == ToLowerCase(OrEmpty(j.location)) = ToLowerCase(l)

\* matchLoc of the filter callback
MatchLoc(j, l) ==
    LET location == ToLowerCase(OrEmpty(j.location))
    IN  l = All \/ location = ToLowerCase(l)

\* A faulty filter callback: a job without a title is dropped.
KeepJobWithTitle(j, query, l) ==
    Truthy(j.job_title) /\ MatchQuery(j, query) /\ MatchLoc(j, l)

\* The filter callback: j => { ... return matchQuery && matchLoc; }
KeepJob(j, query, l) == MatchQuery(j, query) /\ MatchLoc(j, l)

\* Array.prototype.filter with the callback above.
RECURSIVE FilterArray(_, _, _)
FilterArray(js, query, l) ==
    IF js = <<>> THEN <<>>
    ELSE IF KeepJob(Head(js), query, l)
         THEN <<Head(js)>> \o FilterArray(Tail(js), query, l)
         ELSE FilterArray(Tail(js), query, l)

\* const filteredJobs = useMemo(...) as a function of (jobs, q, loc)
FilterJobs(js, qq, l) == FilterArray(js, ToLowerCase(Trim(qq)), l)

\* The memoised values of the current render.
locations    == LocationsOf(jobs)
filteredJobs == FilterJobs(jobs, q, loc)

----------------------------------------------------------------------------
(* The listing screen as a state machine: the dataset loads once, the user *)
(* types a query and picks a location from the selector.                   *)

\* A job record of the dataset; location stands for discovery_input.location.
Job(t, c, l, d) ==
    [job_title |-> t, company_name |-> c, location |-> l, description |-> d]

\* The job records the dataset is drawn from: fields present, empty and
\* missing, locations that differ only in case, and a location spelt "All".
JobPool ==
    { Job(<<"a", "b">>, <<"l", "a">>, <<"a", "l", "l">>, "JD"),
      Job(Undefined, <<>>, All, "JD"),
      Job(<<"B">>, Undefined, Undefined, "JD"),
      Job(<<"b", " ", "a">>, <<"A", "l">>, <<"b">>, ""),
      Job(<<>>, <<"l", "a">>, <<>>, "JD"),
      Job(<<"a", "l">>, <<"b">>, <<"B">>, "JD") }

\* The job arrays of at most n records.
JobArrays(n) == UNION { [1..k -> JobPool] : k \in 0..n }

\* The texts the user types into the search box.
Queries ==
    { <<>>, <<" ">>, <<"a">>, <<" ", "A", " ">>, <<"b">>, <<"l", "b">>,
      <<"a", "l">> }

InitListing ==
    /\ jobs = <<>>
    /\ q = <<>>
    /\ loc = All
    /\ jobsLoaded = FALSE

\* fetch(dataset).then(r => r.json()).then(setJobs)
JobsFetched ==
    /\ ~jobsLoaded
    /\ \E js \in JobArrays(MaxJobs) : jobs' = js
    /\ jobsLoaded' = TRUE
    /\ UNCHANGED <<q, loc>>

\* <input ... onChange={(e) => setQ(e.target.value)} />
SetQ ==
    /\ \E v \in Queries : q' = v
    /\ UNCHANGED <<jobs, loc, jobsLoaded>>

\* <select value={loc} onChange={(e) => setLoc(e.target.value)}> over locations
SetLoc ==
    /\ \E i \in 1..Len(locations) : loc' = locations[i]
    /\ UNCHANGED <<jobs, q, jobsLoaded>>

----------------------------------------------------------------------------
(* The assist screen: values *)

ListingPath == "/"
AssistPath  == "/apply-with-ai"

ValidateUrl == "/api/validate-cv"
CoverUrl    == "/api/cover-letter"
RewriteUrl  == "/api/rewrite-to-cv"
EditUrl     == "/api/edit-letter"

\* The texts the user pastes into the CV box.
CvTexts == {"", "cvA"}

\* A parsed JSON value: null, or an object whose absent members are "undefined".
JsonNull == [t |-> "null", score |-> "undefined", enough |-> "undefined",
             advice |-> "undefined", letter |-> "undefined", cv |-> "undefined"]
JsonObject(score, enough, advice, let, c) ==
    [t |-> "object", score |-> score, enough |-> enough, advice |-> advice,
     letter |-> let, cv |-> c]

\* The bodies /api/validate-cv answers a successful request with.
ValidateTexts ==
    { "{\"score\":80,\"enough\":true,\"advice\":\"\"}",
      "{\"score\":35,\"enough\":false,\"advice\":\"Add projects\"}",
      "{\"score\":20,\"enough\":false}",
      "{\"enough\":false,\"advice\":\"\"}",
      "null",
      "<html>" }

\* The bodies /api/cover-letter and /api/edit-letter answer with.
LetterTexts ==
    { "{\"letter\":\"L1\"}", "{\"letter\":\"L2\"}", "{\"letter\":\"\"}", "<html>" }

\* The bodies /api/rewrite-to-cv answers with.
CvResponseTexts == { "{\"cv\":\"C1\"}", "<html>" }

\* The body of a non-success response.
ErrorTexts == { "Internal Server Error" }

\* What a rejected fetch or body read throws.
NetworkError == "TypeError: Failed to fetch"
SyntaxError  == "SyntaxError: Unexpected token"

\* JSON.parse / res.json(): [ok |-> FALSE] stands for a thrown SyntaxError.
JSONParse(text) ==
    CASE text = "{\"score\":80,\"enough\":true,\"advice\":\"\"}" ->
            [ok |-> TRUE, value |-> JsonObject("80", "true", "", "undefined", "undefined")]
      [] text = "{\"score\":35,\"enough\":false,\"advice\":\"Add projects\"}" ->
            [ok |-> TRUE, value |-> JsonObject("35", "false", "Add projects", "undefined", "undefined")]
      [] text = "{\"score\":20,\"enough\":false}" ->
            [ok |-> TRUE, value |-> JsonObject("20", "false", "undefined", "undefined", "undefined")]
      [] text = "{\"enough\":false,\"advice\":\"\"}" ->
            [ok |-> TRUE, value |-> JsonObject("undefined", "false", "", "undefined", "undefined")]
      [] text = "{\"letter\":\"L1\"}" ->
            [ok |-> TRUE, value |-> JsonObject("undefined", "undefined", "undefined", "L1", "undefined")]
      [] text = "{\"letter\":\"L2\"}" ->
            [ok |-> TRUE, value |-> JsonObject("undefined", "undefined", "undefined", "L2", "undefined")]
      [] text = "{\"letter\":\"\"}" ->
            [ok |-> TRUE, value |-> JsonObject("undefined", "undefined", "undefined", "", "undefined")]
      [] text = "{\"cv\":\"C1\"}" ->
            [ok |-> TRUE, value |-> JsonObject("undefined", "undefined", "undefined", "undefined", "C1")]
      [] text = "null" -> [ok |-> TRUE, value |-> JsonNull]
      [] OTHER -> [ok |-> FALSE, value |-> JsonNull]

\* Boolean(x) of a string-valued member or state: "" and undefined are falsy.
TruthyText(x) == x # "" /\ x # "undefined"

\* The job of the current history entry: const job = state?.job, as a set
\* that is empty when the entry carries no job.
CurrentState == history[idx].state
HasJob       == CurrentState # {}

\* ApplyWithAI is the element of the current route.
Mounted == history[idx].path = AssistPath

\* job?.description is truthy
JobHasDescription == \E j \in CurrentState : TruthyText(j.description)

\* An invocation of generateLetter, rewriteAsCv or modifyLetter in flight.
\*   pc    the await it is suspended at
\*   live  whether the component instance it started on is still mounted
\*   ok    res.ok of the response whose body is being read
\*   vok, vtext   what /api/validate-cv answered (generateLetter)
\*   sent  the requests the invocation has issued, in order
Op(id, kind, pc, url) ==
    [id |-> id, kind |-> kind, pc |-> pc, live |-> TRUE, ok |-> FALSE,
     vok |-> FALSE, vtext |-> "", sent |-> <<url>>]

\* The record of a completed invocation.
\*   failedCall  the URL of the call that failed, "" when none did
\*   text        the body of the last response read, "" when none was
\*   exc         the message of the exception caught, "" when none was
Done(o, failedCall, text, exc) ==
    [id |-> o.id, kind |-> o.kind, live |-> o.live, okLast |-> o.ok,
     vok |-> o.vok, vtext |-> o.vtext, sent |-> o.sent,
     failedCall |-> failedCall, text |-> text, exc |-> exc]

NoOp ==
    [id |-> 0, kind |-> "none", live |-> FALSE, okLast |-> FALSE,
     vok |-> FALSE, vtext |-> "", sent |-> <<>>,
     failedCall |-> "", text |-> "", exc |-> ""]

----------------------------------------------------------------------------
(* The assist screen: navigation *)

\* The useState initial values of a fresh ApplyWithAI instance.
ResetScreen ==
    /\ cv' = ""
    /\ letter' = ""
    /\ loading' = FALSE
    /\ error' = <<>>
    /\ rewrittenCv' = ""
    /\ cvReview' = JsonNull

\* The invocations of an instance that unmounts keep running, detached.
Orphaned == { [o EXCEPT !.live = FALSE] : o \in ops }

\* navigate(path, {state}): push an entry after the current one and render it.
Navigate(path, state) ==
    /\ history' = Append(SubSeq(history, 1, idx), [path |-> path, state |-> state])
    /\ idx' = idx + 1
    /\ effectPending' = (path = AssistPath)
    /\ ResetScreen
    /\ ops' = Orphaned
    /\ completed' = NoOp
    /\ UNCHANGED <<nextId, listingVars>>

\* JobsPage: onClick={() => navigate("/apply-with-ai", { state: { job } })}
\* on the card of a job of filteredJobs.
ClickApplyWithAI ==
    /\ history[idx].path = ListingPath
    /\ \E i \in 1..Len(filteredJobs) : Navigate(AssistPath, {filteredJobs[i]})

\* A faulty effect condition: navigate whether or not a job is present.
RedirectAlways == TRUE

\* if (!job) ...
RedirectNeeded == ~HasJob

\* useEffect(() => { if (!job) navigate("/"); }, [job, navigate])
RunEffect ==
    /\ Mounted
    /\ effectPending
    /\ IF RedirectNeeded
       THEN Navigate(ListingPath, {})
       ELSE /\ effectPending' = FALSE
            /\ completed' = NoOp
            /\ UNCHANGED <<history, idx, screenVars, ops, nextId, listingVars>>

\* Events reach the screen's controls once it is mounted and its effect ran.
\* A click handler runs to its first await in one step, and the screen is
\* rendered again with the state it set before the next event is handled.
Interactive == Mounted /\ ~effectPending

\* <button className="btn-link" onClick={() => navigate(-1)}>
ClickBack ==
    /\ Interactive
    /\ idx > 1
    /\ idx' = idx - 1
    /\ effectPending' = (history[idx - 1].path = AssistPath)
    /\ ResetScreen
    /\ ops' = Orphaned
    /\ completed' = NoOp
    /\ UNCHANGED <<history, nextId, listingVars>>

\* <textarea value={cv} onChange={(e) => setCv(e.target.value)} />
SetCv ==
    /\ Interactive
    /\ \E v \in CvTexts \ {cv} : cv' = v
    /\ completed' = NoOp
    /\ UNCHANGED <<letter, loading, error, rewrittenCv, cvReview, ops, nextId,
                   navVars, listingVars>>

----------------------------------------------------------------------------
(* The assist screen: the controls *)

\* A faulty generate button: loading left out of its disabled expression.
GenerateEnabledIgnoringLoading == TruthyText(cv) /\ JobHasDescription

\* The generate button: disabled={!cv || !job?.description || loading}
GenerateEnabled == TruthyText(cv) /\ JobHasDescription /\ ~loading

\* The rewrite button: disabled={!cv || !job?.description || loading}
RewriteEnabled == TruthyText(cv) /\ JobHasDescription /\ ~loading

\* The apply-change button: rendered under {letter && ...},
\* disabled={!letter || loading}
ModifyEnabled == TruthyText(letter) /\ ~loading

\* A faulty advice message: no default for an absent advice.
AdviceMessageNoDefault(review) ==
    << "Your CV seems incomplete for this JD (score ", review.score, "). ",
       review.advice >>

\* The message of the insufficient-CV branch of generateLetter.
AdviceMessage(review) ==
    << "Your CV seems incomplete for this JD (score ", review.score, "). ",
       IF TruthyText(review.advice) THEN review.advice
       ELSE "Please add more detail." >>

\* A faulty catch block of generateLetter: it shows what was thrown.
GenerateCatchShowingException(e) == <<e>>

\* The catch blocks: each sets its fixed message, whatever was thrown.
ValidateCatch(e) == <<"CV validation failed.">>
GenerateCatch(e) == <<"Failed to generate letter.">>
RewriteCatch(e)  == <<"Failed to rewrite CV.">>
ModifyCatch(e)   == <<"Failed to modify letter.">>

\* A faulty completion: the finally block does not clear loading.
CompleteLeavingLoading(o, newError, newLetter, newRewritten, newReview, rec) ==
    /\ ops' = ops \ {o}
    /\ completed' = rec
    /\ IF o.live
       THEN /\ error' = newError
            /\ letter' = newLetter
            /\ rewrittenCv' = newRewritten
            /\ cvReview' = newReview
            /\ UNCHANGED <<cv, loading>>
       ELSE UNCHANGED screenVars
    /\ UNCHANGED <<nextId, navVars, listingVars>>

\* The invocation o completes: finally { setLoading(false) }.  The setters
\* of an instance that has unmounted change nothing.
Complete(o, newError, newLetter, newRewritten, newReview, rec) ==
    /\ ops' = ops \ {o}
    /\ completed' = rec
    /\ IF o.live
       THEN /\ loading' = FALSE
            /\ error' = newError
            /\ letter' = newLetter
            /\ rewrittenCv' = newRewritten
            /\ cvReview' = newReview
            /\ UNCHANGED cv
       ELSE UNCHANGED screenVars
    /\ UNCHANGED <<nextId, navVars, listingVars>>

\* The invocation o moves on to its next await; state setters made on the
\* way apply when its instance is still mounted.
Continue(o, next, newReview) ==
    /\ ops' = (ops \ {o}) \cup {next}
    /\ completed' = NoOp
    /\ IF o.live
       THEN /\ cvReview' = newReview
            /\ UNCHANGED <<cv, letter, loading, error, rewrittenCv>>
       ELSE UNCHANGED screenVars
    /\ UNCHANGED <<nextId, navVars, listingVars>>

----------------------------------------------------------------------------
(* The assist screen: generateLetter, rewriteAsCv, modifyLetter *)

\* A handler starts: a new invocation suspended at its first fetch.
Start(kind, pc, url) ==
    /\ nextId <= MaxOps
    /\ ops' = ops \cup {Op(nextId, kind, pc, url)}
    /\ nextId' = nextId + 1
    /\ completed' = NoOp
    /\ UNCHANGED <<navVars, listingVars>>

\* generateLetter up to the fetch of validateCv:
\* setLoading(true); setError(""); setLetter(""); await validateCv()
ClickGenerate ==
    /\ Interactive
    /\ GenerateEnabled
    /\ loading' = TRUE
    /\ error' = <<>>
    /\ letter' = ""
    /\ UNCHANGED <<cv, rewrittenCv, cvReview>>
    /\ Start("generate", "validate_fetch", ValidateUrl)

\* rewriteAsCv up to its fetch:
\* setLoading(true); setError(""); setRewrittenCv("")
ClickRewrite ==
    /\ Interactive
    /\ RewriteEnabled
    /\ loading' = TRUE
    /\ error' = <<>>
    /\ rewrittenCv' = ""
    /\ UNCHANGED <<cv, letter, cvReview>>
    /\ Start("rewrite", "rewrite_fetch", RewriteUrl)

\* modifyLetter up to its fetch: setLoading(true); setError("")
ClickModify ==
    /\ Interactive
    /\ ModifyEnabled
    /\ loading' = TRUE
    /\ error' = <<>>
    /\ UNCHANGED <<cv, letter, rewrittenCv, cvReview>>
    /\ Start("modify", "edit_fetch", EditUrl)

\* The catch block of a handler runs on exception e of the call to url.
Caught(o, url, text, e, msg) ==
    Complete(o, msg, letter, rewrittenCv, cvReview, Done(o, url, text, e))

\* await fetch(url) settles: a response with some res.ok, or a rejection
\* that the handler's catch block turns into msg.
FetchSettles(o, bodyPc, url, msg) ==
    \/ \E ok \in BOOLEAN :
          Continue(o, [o EXCEPT !.pc = bodyPc, !.ok = ok], cvReview)
    \/ Caught(o, url, "", NetworkError, msg)

\* A faulty insufficient-CV test: the branch is never taken.
InsufficientIgnored(review) == FALSE

\* if (review.enough === false)
Insufficient(review) == review.enough = "false"

\* validateCv: const res = await fetch("/api/validate-cv", ...)
ValidateFetchSettles ==
    \E o \in ops :
       /\ o.pc = "validate_fetch"
       /\ \/ \E ok \in BOOLEAN :
                Continue(o, [o EXCEPT !.pc = "validate_text", !.ok = ok, !.vok = ok],
                         cvReview)
          \/ Caught(o, ValidateUrl, "", NetworkError, ValidateCatch(NetworkError))

\* validateCv from const text = await res.text() to its return, and
\* generateLetter from the return of validateCv to its next await or its end.
ValidateTextSettles ==
    \E o \in ops :
       /\ o.pc = "validate_text"
       /\ \/ Caught(o, ValidateUrl, "", NetworkError, ValidateCatch(NetworkError))
          \/ \E text \in (IF o.ok THEN ValidateTexts ELSE ErrorTexts) :
                LET o2     == [o EXCEPT !.vtext = text]
                    parsed == JSONParse(text)
                    review == parsed.value
                IN  IF ~o.ok
                    THEN Complete(o, ValidateCatch(text), letter, rewrittenCv,
                                  cvReview, Done(o2, ValidateUrl, text, text))
                    ELSE IF ~parsed.ok
                    THEN Complete(o, ValidateCatch(SyntaxError), letter, rewrittenCv,
                                  cvReview, Done(o2, ValidateUrl, text, SyntaxError))
                    ELSE IF review.t = "null"
                    THEN Complete(o, error, letter, rewrittenCv, review,
                                  Done(o2, "", text, ""))
                    ELSE IF Insufficient(review)
                    THEN Complete(o, AdviceMessage(review), letter, rewrittenCv,
                                  review, Done(o2, "", text, ""))
                    ELSE Continue(o, [o2 EXCEPT !.pc = "cover_fetch", !.ok = FALSE,
                                                !.sent = Append(@, CoverUrl)],
                                  review)

\* generateLetter: const res = await fetch("/api/cover-letter", ...)
CoverFetchSettles ==
    \E o \in ops :
       /\ o.pc = "cover_fetch"
       /\ FetchSettles(o, "cover_body", CoverUrl, GenerateCatch(NetworkError))

\* What reading the body of the response of o comes to:
\*   if (!res.ok) throw new Error(await res.text());
\*   const data = await res.json();  ... data.letter / data.cv
\* thrown says whether an exception reaches the catch block, exc is its
\* message, data the parsed object otherwise.
BodyOutcomes(o, texts) ==
    { [text |-> "", thrown |-> TRUE, exc |-> NetworkError, data |-> JsonNull] }
    \cup
    { LET parsed == JSONParse(text)
      IN  IF ~o.ok
          THEN [text |-> text, thrown |-> TRUE, exc |-> text, data |-> JsonNull]
          ELSE IF ~parsed.ok
          THEN [text |-> text, thrown |-> TRUE, exc |-> SyntaxError, data |-> JsonNull]
          ELSE IF parsed.value.t = "null"
          THEN [text |-> text, thrown |-> TRUE, exc |-> "TypeError: data is null",
                data |-> JsonNull]
          ELSE [text |-> text, thrown |-> FALSE, exc |-> "", data |-> parsed.value]
      : text \in (IF o.ok THEN texts ELSE ErrorTexts) }

\* A faulty success path: the letter shown before is kept.
SetLetterKept(o, data, text) ==
    Complete(o, error, letter, rewrittenCv, cvReview, Done(o, "", text, ""))

\* setLetter(data.letter); finally { setLoading(false) }
SetLetter(o, data, text) ==
    Complete(o, error, data.letter, rewrittenCv, cvReview, Done(o, "", text, ""))

\* setRewrittenCv(data.cv); finally { setLoading(false) }
SetRewrittenCv(o, data, text) ==
    Complete(o, error, letter, data.cv, cvReview, Done(o, "", text, ""))

\* generateLetter from if (!res.ok) ... to its end
CoverBodySettles ==
    \E o \in ops :
       /\ o.pc = "cover_body"
       /\ \E r \in BodyOutcomes(o, LetterTexts \cup {"null"}) :
             IF r.thrown
             THEN Caught(o, CoverUrl, r.text, r.exc, GenerateCatch(r.exc))
             ELSE SetLetter(o, r.data, r.text)

\* rewriteAsCv: const res = await fetch("/api/rewrite-to-cv", ...)
RewriteFetchSettles ==
    \E o \in ops :
       /\ o.pc = "rewrite_fetch"
       /\ FetchSettles(o, "rewrite_body", RewriteUrl, RewriteCatch(NetworkError))

\* rewriteAsCv from if (!res.ok) ... to its end
RewriteBodySettles ==
    \E o \in ops :
       /\ o.pc = "rewrite_body"
       /\ \E r \in BodyOutcomes(o, CvResponseTexts) :
             IF r.thrown
             THEN Caught(o, RewriteUrl, r.text, r.exc, RewriteCatch(r.exc))
             ELSE SetRewrittenCv(o, r.data, r.text)

\* modifyLetter: const res = await fetch("/api/edit-letter", ...)
EditFetchSettles ==
    \E o \in ops :
       /\ o.pc = "edit_fetch"
       /\ FetchSettles(o, "edit_body", EditUrl, ModifyCatch(NetworkError))

\* modifyLetter from if (!res.ok) ... to its end
EditBodySettles ==
    \E o \in ops :
       /\ o.pc = "edit_body"
       /\ \E r \in BodyOutcomes(o, LetterTexts) :
             IF r.thrown
             THEN Caught(o, EditUrl, r.text, r.exc, ModifyCatch(r.exc))
             ELSE SetLetter(o, r.data, r.text)

----------------------------------------------------------------------------
(* Specifications *)

\* The dataset the listing screen shows in the assist specification.
AssistDataset ==
    << Job(<<"a", "b">>, <<"l", "a">>, <<"a", "l", "l">>, "JD"),
       Job(<<"b", " ", "a">>, <<"A", "l">>, <<"b">>, "") >>

\* The app is opened at one of the routes of App.jsx, with no navigation state.
InitAssist ==
    /\ \E path \in {ListingPath, AssistPath} :
          /\ history = <<[path |-> path, state |-> {}]>>
          /\ effectPending = (path = AssistPath)
    /\ idx = 1
    /\ cv = ""
    /\ letter = ""
    /\ loading = FALSE
    /\ error = <<>>
    /\ rewrittenCv = ""
    /\ cvReview = JsonNull
    /\ ops = {}
    /\ nextId = 1
    /\ completed = NoOp

Init ==
    /\ InitAssist
    /\ jobs = AssistDataset
    /\ q = <<>>
    /\ loc = All
    /\ jobsLoaded = TRUE

Next ==
    \/ ClickApplyWithAI
    \/ RunEffect
    \/ ClickBack
    \/ SetCv
    \/ ClickGenerate
    \/ ValidateFetchSettles
    \/ ValidateTextSettles
    \/ CoverFetchSettles
    \/ CoverBodySettles
    \/ ClickRewrite
    \/ RewriteFetchSettles
    \/ RewriteBodySettles
    \/ ClickModify
    \/ EditFetchSettles
    \/ EditBodySettles

\* The assist screen and the router.
Spec == Init /\ [][Next]_vars

\* React runs the effect of a mounted component.
SpecLive == Spec /\ WF_vars(RunEffect)

\* A response or a failure of a request in flight arrives.
RequestSettles ==
    \/ ValidateFetchSettles
    \/ ValidateTextSettles
    \/ CoverFetchSettles
    \/ CoverBodySettles
    \/ RewriteFetchSettles
    \/ RewriteBodySettles
    \/ EditFetchSettles
    \/ EditBodySettles

\* The assist screen when no request in flight waits for ever.
SpecResponsive == Spec /\ WF_vars(RequestSettles)

\* The listing screen alone, opened at "/".
InitListingSpec ==
    /\ InitListing
    /\ history = <<[path |-> ListingPath, state |-> {}]>>
    /\ effectPending = FALSE
    /\ idx = 1
    /\ cv = ""
    /\ letter = ""
    /\ loading = FALSE
    /\ error = <<>>
    /\ rewrittenCv = ""
    /\ cvReview = JsonNull
    /\ ops = {}
    /\ nextId = 1
    /\ completed = NoOp

NextListing ==
    \/ (JobsFetched /\ UNCHANGED <<navVars, screenVars, asyncVars>>)
    \/ (SetQ /\ UNCHANGED <<navVars, screenVars, asyncVars>>)
    \/ (SetLoc /\ UNCHANGED <<navVars, screenVars, asyncVars>>)

SpecListing == InitListingSpec /\ [][NextListing]_vars

----------------------------------------------------------------------------
(* Claims about the assist screen *)

\* What /api/validate-cv answered to a generateLetter invocation r said the
\* CV was not enough: a successful response whose body carries enough:false.
ValidationSaidNotEnough(r) ==
    /\ r.kind = "generate"
    /\ r.vok
    /\ JSONParse(r.vtext).ok
    /\ JSONParse(r.vtext).value.t = "object"
    /\ JSONParse(r.vtext).value.enough = "false"

\* C1: when /api/validate-cv answers successfully with enough:false, the
\* generateLetter invocation issues no POST to /api/cover-letter, neither
\* while it runs nor by the time it has completed, and it completes with the
\* letter state empty.
C1_NoGenerationWhenNotEnough ==
    /\ \A o \in ops : ValidationSaidNotEnough(o) => CoverUrl \notin Range(o.sent)
    /\ ValidationSaidNotEnough(completed) =>
          /\ CoverUrl \notin Range(completed.sent)
          /\ completed.live => letter = ""

C1_Witness ==
    /\ ValidationSaidNotEnough(completed)
    /\ completed.live
    /\ completed.id = 2

\* The generateLetter invocation r got a successful /api/cover-letter
\* response whose body is an object {letter: X}.
GenerationSucceeded(r) ==
    /\ r.kind = "generate"
    /\ r.sent = <<ValidateUrl, CoverUrl>>
    /\ r.okLast
    /\ JSONParse(r.text).ok
    /\ JSONParse(r.text).value.t = "object"

\* C2: when generateLetter completes on a successful response {letter: X},
\* the letter state equals X.
C2_LetterIsResponse ==
    (GenerationSucceeded(completed) /\ completed.live) =>
        letter = JSONParse(completed.text).value.letter

\* A second generation has replaced the letter of the first.
C2_Witness ==
    /\ GenerationSucceeded(completed)
    /\ completed.live
    /\ completed.id = 2
    /\ letter = "L2"

\* C3: at most one invocation of generateLetter, rewriteAsCv or modifyLetter
\* is between its start and its completion on the mounted screen.
C3_OneInFlight == Cardinality({o \in ops : o.live}) <= 1

\* A second invocation is in flight, the first having completed.
C3_Witness == \E o \in ops : o.live /\ o.id = 2 /\ loading

\* The last call of invocation r failed: its fetch was rejected, its response
\* was not a success, or reading its body was rejected.
CallFailed(r) ==
    /\ r.kind # "none"
    /\ ~r.okLast \/ r.exc = NetworkError

\* The fixed message of the call to url.
FixedMessage(url) ==
    CASE url = CoverUrl    -> <<"Failed to generate letter.">>
      [] url = RewriteUrl  -> <<"Failed to rewrite CV.">>
      [] url = EditUrl     -> <<"Failed to modify letter.">>
      [] url = ValidateUrl -> <<"CV validation failed.">>

NoRepeat(s) == \A i, j \in 1..Len(s) : s[i] = s[j] => i = j

\* C4: after a failed call the error state is exactly the fixed message of
\* that call, whatever the response held, and no invocation issues a request
\* twice.
C4_FixedMessages ==
    /\ (CallFailed(completed) /\ completed.live) =>
          error = FixedMessage(completed.sent[Len(completed.sent)])
    /\ NoRepeat(completed.sent)
    /\ \A o \in ops : NoRepeat(o.sent)

\* A non-success response with a body was turned into the fixed message.
C4_Witness ==
    /\ CallFailed(completed)
    /\ completed.live
    /\ completed.text = "Internal Server Error"
    /\ completed.sent = <<ValidateUrl, CoverUrl>>

\* C5: a mounted assist screen without a job leads to the listing route, and
\* with a job present the screen pushes no navigation to the listing route.
C5_RedirectHome ==
    /\ (Mounted /\ ~HasJob) ~> (history[idx].path = ListingPath)
    /\ [][(Mounted /\ HasJob) =>
             ~(idx' = idx + 1 /\ history'[idx'].path = ListingPath)]_vars

\* The screen was opened directly and has redirected to the listing.
C5_Witness ==
    /\ Len(history) >= 2
    /\ idx = 2
    /\ history[1] = [path |-> AssistPath, state |-> {}]
    /\ history[2].path = ListingPath

\* C10: when /api/validate-cv answers successfully with enough:false,
\* generateLetter ends with the advice message in the error state (the
\* returned score, and the returned advice or "Please add more detail."),
\* never a fixed failure message, and with the response stored in cvReview.
C10_AdviceBranch ==
    (ValidationSaidNotEnough(completed) /\ completed.live) =>
        LET review == JSONParse(completed.vtext).value
        IN  /\ Len(error) = 4
            /\ error[1] = "Your CV seems incomplete for this JD (score "
            /\ review.score # "undefined" => error[2] = review.score
            /\ error[3] = "). "
            /\ review.advice \notin {"undefined", ""} => error[4] = review.advice
            /\ review.advice = "undefined" => error[4] = "Please add more detail."
            /\ error \notin {FixedMessage(CoverUrl), FixedMessage(ValidateUrl)}
            /\ cvReview = review

\* The advice was absent from the response.
C10_Witness ==
    /\ ValidationSaidNotEnough(completed)
    /\ completed.live
    /\ JSONParse(completed.vtext).value.advice = "undefined"

----------------------------------------------------------------------------
(* Claims about the listing screen *)

\* A field of a job as text, a missing one being the empty text.
TextOf(x) == IF x = Undefined THEN <<>> ELSE x

EqualIgnoringCase(a, b) == ToLowerCase(a) = ToLowerCase(b)

\* The jobs the listing is to show for the query qq and the location l.
Wanted(j, qq, l) ==
    LET needle == Trim(ToLowerCase(qq))
    IN  /\ l = All \/ EqualIgnoringCase(TextOf(j.location), l)
        /\ \/ needle = <<>>
           \/ Includes(ToLowerCase(TextOf(j.job_title)), needle)
           \/ Includes(ToLowerCase(TextOf(j.company_name)), needle)
           \/ Includes(ToLowerCase(TextOf(j.location)), needle)

\* C6: filteredJobs is exactly the subsequence of jobs, in input order, of
\* the jobs whose location is the selected one ignoring case (or any, under
\* "All") and whose title, company or location contains the trimmed
\* lower-cased query (or any, when that is empty).
C6_FilterIsSelection ==
    filteredJobs = SelectSeq(jobs, LAMBDA j : Wanted(j, q, loc))

\* A query and a location are set, and the filter keeps some jobs and drops
\* others.
C6_Witness ==
    /\ Trim(q) # <<>>
    /\ loc # All
    /\ Len(filteredJobs) >= 1
    /\ Len(filteredJobs) < Len(jobs)

\* C7: the query alone and then the location alone, the location alone and
\* then the query alone, and the two together give the same list.
C7_FilterOrderIndependent ==
    LET byQueryThenLoc == FilterJobs(FilterJobs(jobs, q, All), <<>>, loc)
        byLocThenQuery == FilterJobs(FilterJobs(jobs, <<>>, loc), q, All)
    IN  /\ byQueryThenLoc = byLocThenQuery
        /\ byLocThenQuery = FilterJobs(jobs, q, loc)

\* The query alone and the location alone each drop a job, and a job passes
\* both.
C7_Witness ==
    /\ Len(FilterJobs(jobs, q, All)) < Len(jobs)
    /\ Len(FilterJobs(jobs, <<>>, loc)) < Len(jobs)
    /\ Len(FilterJobs(jobs, q, loc)) >= 1
    /\ FilterJobs(jobs, q, All) # FilterJobs(jobs, <<>>, loc)

\* C8: with the empty query and "All" selected, filteredJobs is the job
\* array itself.
C8_NoFilterIsIdentity ==
    (q = <<>> /\ loc = All) => filteredJobs = jobs

\* Jobs are loaded, one of them without a title and one without a location.
C8_Witness ==
    /\ q = <<>>
    /\ loc = All
    /\ Len(jobs) >= 2
    /\ \E i \in 1..Len(jobs) : jobs[i].job_title = Undefined
    /\ \E i \in 1..Len(jobs) : jobs[i].location = Undefined

\* The entries of a list after the first are in localeCompare order.
SortedAfterFirst(xs) ==
    \A i \in 2..(Len(xs) - 1) : LocaleCompare(xs[i], xs[i + 1]) <= 0

\* C9: the location list has no duplicate entries, starts with "All", has
\* its other entries sorted, and contains every location of the jobs.
C9_LocationList ==
    /\ NoRepeat(locations)
    /\ locations[1] = All
    /\ SortedAfterFirst(locations)
    /\ \A i \in 1..Len(jobs) :
          Truthy(jobs[i].location) => jobs[i].location \in Range(locations)

\* What of C9 the code does keep: "All" first, the other entries sorted and
\* distinct among themselves, every location of the jobs present.
LocationListButSentinel ==
    /\ NoRepeat(Tail(locations))
    /\ locations[1] = All
    /\ SortedAfterFirst(locations)
    /\ \A i \in 1..Len(jobs) :
          Truthy(jobs[i].location) => jobs[i].location \in Range(locations)

----------------------------------------------------------------------------
(* Claims about the loading flag *)

\* C11: provided requests in flight get a response or fail, a screen that
\* is loading eventually is not loading again, on every path of
\* generateLetter, rewriteAsCv and modifyLetter; and loading is true in
\* every state in which an invocation of the mounted screen is in flight.
C11_LoadingReturnsToIdle ==
    /\ loading ~> ~loading
    /\ [](\A o \in ops : o.live => loading)

\* An invocation took the insufficient-CV early return, another failed at
\* its request, and the screen is idle again.
C11_Witness ==
    /\ ~loading
    /\ completed.live
    /\ completed.id = 2
    /\ completed.kind = "rewrite"
    /\ CallFailed(completed)
    /\ cvReview.enough = "false"

====
